---- MODULE Spec2Model ----
(***************************************************************************)
(* Copy-trading executor pipeline: the pending-trade store, the per-       *)
(* follower execution ledger, the in-memory aggregation buffer, the        *)
(* execution engine and the executor loop, with store faults and executor  *)
(* restarts. Amounts are scaled integers: 100 is 1.00 USD, a price of 50   *)
(* is 0.50. A quotient the code keeps as a float is kept as the pair       *)
(* [num, den].                                                             *)
(***************************************************************************)
EXTENDS Integers, Sequences, FiniteSets, TLC

\* ------------------------------------------------------------ bounds
MaxTrades == 2
NumFollowers == 2
MaxFaults == 1
MaxCrashes == 1
MaxTime == 1
WindowTicks == 1
MaxGroupLen == 3
MaxCbTime == 3
CoolDownTicks == 2
MaxPolls == 2

\* ------------------------------------------------------------ program constants
TRADE_AGGREGATION_MIN_TOTAL_USD == 100
FailureThreshold == 3

TradeIds == 1..MaxTrades
Followers == 1..NumFollowers
\* 0 stands for "no followerWallet argument" (single-follower call)
NoFollower == 0

\* ------------------------------------------------------------ data
\* The shapes of SourceTrade the monitor can insert: side, notional, price, market.
TradeKinds ==
    { [side |-> "BUY",  usdcSize |-> 40,  price |-> 50, conditionId |-> <<"m">>],
      [side |-> "BUY",  usdcSize |-> 70,  price |-> 60, conditionId |-> <<"m">>],
      [side |-> "BUY",  usdcSize |-> 100, price |-> 50, conditionId |-> <<"m">>],
      [side |-> "SELL", usdcSize |-> 40,  price |-> 50, conditionId |-> <<"m">>] }

\* Follower balances the balance fetch can return.
Balances == {10, 50, 200}

\* copies: the documents stored for the transactionHash; polls: how many times the
\* API has returned the activity (kept with the document for the properties only).
NoTrade == [present |-> FALSE, side |-> "BUY", usdcSize |-> 0, price |-> 0,
            conditionId |-> <<>>, bot |-> FALSE, botExcutedTime |-> 0,
            copies |-> 0, polls |-> 0]

\* A trade as the executor holds it in memory (TradeWithUser).
TradeWithUser(act, t) ==
    [id |-> t, userAddress |-> <<"a">>, conditionId |-> act[t].conditionId,
     asset |-> act[t].conditionId, side |-> act[t].side,
     usdcSize |-> act[t].usdcSize, price |-> act[t].price]

RECURSIVE SumSeq(_)
SumSeq(s) == IF s = <<>> THEN 0 ELSE Head(s) + SumSeq(Tail(s))

\* ------------------------------------------------------------ TradeAggregator
getAggregationKey_NoSeparator(trade) ==
    trade.userAddress \o trade.conditionId \o trade.asset \o <<trade.side>>

\* `${userAddress}:${conditionId}:${asset}:${side}`; an address or an id is a
\* sequence of characters, the side one word
getAggregationKey(trade) ==
    trade.userAddress \o <<":">> \o trade.conditionId \o <<":">> \o trade.asset
        \o <<":">> \o <<trade.side>>

\* Index of the group stored under key, 0 when the Map has none.
BufferIndex(buf, key) ==
    IF \E i \in 1..Len(buf) : buf[i].key = key
    THEN CHOOSE i \in 1..Len(buf) : buf[i].key = key
    ELSE 0

TradeValue(t) == t.usdcSize * t.price

\* the reduce of line 73
TotalValue(trades) == SumSeq([i \in 1..Len(trades) |-> TradeValue(trades[i])])

addToAggregationBuffer_NoRecompute(buf, trade, time) ==
    LET key == getAggregationKey(trade)
        idx == BufferIndex(buf, key)
    IN  IF idx # 0
        THEN [buf EXCEPT ![idx] =
                [@ EXCEPT !.trades = Append(@, trade),
                          !.totalUsdcSize = @ + trade.usdcSize,
                          !.lastTradeTime = time]]
        ELSE Append(buf, [key |-> key, side |-> trade.side, trades |-> <<trade>>,
                          totalUsdcSize |-> trade.usdcSize,
                          averagePrice |-> [num |-> trade.price, den |-> 1],
                          firstTradeTime |-> time, lastTradeTime |-> time])

addToAggregationBuffer_ResetsWindow(buf, trade, time) ==
    LET key == getAggregationKey(trade)
        idx == BufferIndex(buf, key)
    IN  IF idx # 0
        THEN [buf EXCEPT ![idx] =
                [@ EXCEPT !.trades = Append(@, trade),
                          !.totalUsdcSize = @ + trade.usdcSize,
                          !.averagePrice =
                              [num |-> TotalValue(Append(buf[idx].trades, trade)),
                               den |-> buf[idx].totalUsdcSize + trade.usdcSize],
                          !.firstTradeTime = time,
                          !.lastTradeTime = time]]
        ELSE Append(buf, [key |-> key, side |-> trade.side, trades |-> <<trade>>,
                          totalUsdcSize |-> trade.usdcSize,
                          averagePrice |-> [num |-> trade.price, den |-> 1],
                          firstTradeTime |-> time, lastTradeTime |-> time])

addToAggregationBuffer(buf, trade, time) ==
    LET key == getAggregationKey(trade)
        idx == BufferIndex(buf, key)
    IN  IF idx # 0
        THEN [buf EXCEPT ![idx] =
                [@ EXCEPT !.trades = Append(@, trade),
                          !.totalUsdcSize = @ + trade.usdcSize,
                          !.averagePrice =
                              [num |-> TotalValue(Append(buf[idx].trades, trade)),
                               den |-> buf[idx].totalUsdcSize + trade.usdcSize],
                          !.lastTradeTime = time]]
        ELSE Append(buf, [key |-> key, side |-> trade.side, trades |-> <<trade>>,
                          totalUsdcSize |-> trade.usdcSize,
                          averagePrice |-> [num |-> trade.price, den |-> 1],
                          firstTradeTime |-> time, lastTradeTime |-> time])

\* A group is past its window (line 113).
WindowElapsed(agg, time) == time - agg.firstTradeTime >= WindowTicks

\* Ready for execution (line 114).
MeetsMinimum(agg) == agg.totalUsdcSize >= TRADE_AGGREGATION_MIN_TOTAL_USD

GroupIds(agg) == { agg.trades[i].id : i \in 1..Len(agg.trades) }

\* ------------------------------------------------------------ state
VARIABLES
    multi,        \* TRUE: multi-wallet executor; FALSE: single-wallet executor
    aggEnabled,   \* ENV.TRADE_AGGREGATION_ENABLED
    preview,      \* ENV.PREVIEW_MODE
    numClients,   \* clobClients.length, the order-gateway clients handed to tradeExecutor
    activity,     \* the UserActivity collection: trade id -> document
    ledger,       \* the copy_executions collection: <<trade, follower>> -> documents
    buffer,       \* tradeAggregationBuffer, in Map insertion order
    pc,           \* where the executor loop stands
    trades,       \* the pending trades read by this iteration, not yet processed
    fq,           \* pendingIndices still to attempt for Head(trades)
    readyq,       \* readyAggregations still to execute
    cur,          \* the ValidationResult executeTrade / executeAggregatedTrades holds
    vin,          \* what the fetches of that validation returned
    isRunning,    \* the executor's stop flag
    now,          \* Date.now(), in window ticks
    faults,       \* store / gateway faults injected so far
    crashes,      \* process restarts so far (executor and monitor)
    monFirstRun,  \* the monitor's isFirstRun
    postCount,    \* <<trade, follower>> -> postOrder calls of executeTrade
    aggOrders,    \* postOrder calls of executeAggregatedTrades
    doneBy,       \* trade id -> which path set bot = true
    skipped,      \* trades of groups removed as below the minimum
    cb,           \* breaker name -> circuit breaker
    cbNow,        \* the breakers' clock
    cbLast        \* what the latest breaker call did

vars == <<multi, aggEnabled, preview, numClients, activity, ledger, buffer, pc, trades, fq,
          readyq, cur, vin, isRunning, now, faults, crashes, monFirstRun,
          postCount, aggOrders, doneBy, skipped, cb, cbNow, cbLast>>

configVars == <<multi, aggEnabled, preview, numClients>>
storeVars == <<activity, ledger>>
loopVars == <<buffer, pc, trades, fq, readyq, cur, vin, isRunning, now>>
envVars == <<faults, crashes, monFirstRun>>
ghostVars == <<postCount, aggOrders, doneBy, skipped>>
breakerVars == <<cb, cbNow, cbLast>>

Pairs == TradeIds \X (0..NumFollowers)

\* ------------------------------------------------------------ store
\* A store write under a fault: "none" applies and returns, "lost" does not apply
\* and throws, "ack" applies and throws (the acknowledgement is lost).
WriteFaults == {"none", "lost", "ack"}
ReadFaults == {"none", "lost"}
Applied(d) == d # "lost"
Threw(d) == d # "none"
Cost(d) == IF d = "none" THEN 0 ELSE 1

IsPending_BotOnly(doc) == doc.present /\ ~doc.bot

\* readTempTrades' filter: type TRADE, bot false, botExcutedTime 0
IsPending(doc) == doc.present /\ ~doc.bot /\ doc.botExcutedTime = 0

RECURSIVE PendingFrom(_, _)
PendingFrom(act, t) ==
    IF t > MaxTrades THEN <<>>
    ELSE IF IsPending(act[t]) THEN <<TradeWithUser(act, t)>> \o PendingFrom(act, t + 1)
    ELSE PendingFrom(act, t + 1)

readTempTrades(act, d) == IF Threw(d) THEN <<>> ELSE PendingFrom(act, 1)

MarkProcessing(act, t) == [act EXCEPT ![t].botExcutedTime = 1]
MarkFailed(act, t) == [act EXCEPT ![t].botExcutedTime = -1]
MarkBot(act, t) == [act EXCEPT ![t].bot = TRUE]
MarkFullyProcessed_EveryTrade(act, t) ==
    [u \in TradeIds |-> IF act[u].present
                        THEN [act[u] EXCEPT !.bot = TRUE, !.botExcutedTime = 1]
                        ELSE act[u]]

MarkFullyProcessed(act, t) == [act EXCEPT ![t].bot = TRUE, ![t].botExcutedTime = 1]

\* the status update named by mark: "processing", "failed" or "bot"
MarkAs(act, t, mark) ==
    IF mark = "processing" THEN MarkProcessing(act, t)
    ELSE IF mark = "failed" THEN MarkFailed(act, t)
    ELSE MarkBot(act, t)

MarkAll(act, ids, mark) ==
    [t \in TradeIds |-> IF t \in ids THEN MarkAs(act, t, mark)[t] ELSE act[t]]

ExecutionRecord(t, f, status, isPreview) ==
    [activityId |-> t, followerWallet |-> f, status |-> status, preview |-> isPreview]

CopyExecutionCreate_NoUniqueIndex(l, rec, d) ==
    LET k == <<rec.activityId, rec.followerWallet>>
    IN  [ledger |-> IF Applied(d) THEN [l EXCEPT ![k] = Append(@, rec)] ELSE l,
         threw |-> Threw(d)]

\* CopyExecution.create under the unique index (traderAddress, activityId, followerWallet)
CopyExecutionCreate(l, rec, d) ==
    LET k == <<rec.activityId, rec.followerWallet>>
        dup == Len(l[k]) > 0
    IN  [ledger |-> IF ~dup /\ Applied(d) THEN [l EXCEPT ![k] = Append(@, rec)] ELSE l,
         threw |-> dup \/ Threw(d)]

getPendingFollowerIndices_SuccessOnly(l, t) ==
    SelectSeq([i \in 1..NumFollowers |-> i],
              LAMBDA i : \A j \in 1..Len(l[<<t, i>>]) : l[<<t, i>>][j].status # "success")

getPendingFollowerIndices_Reversed(l, t) ==
    SelectSeq([i \in 1..NumFollowers |-> NumFollowers + 1 - i],
              LAMBDA i : Len(l[<<t, i>>]) = 0)

\* followers without a ledger document for the trade, in configured order
getPendingFollowerIndices(l, t) ==
    SelectSeq([i \in 1..NumFollowers |-> i], LAMBDA i : Len(l[<<t, i>>]) = 0)

countDocuments(l, t) == SumSeq([i \in 1..NumFollowers |-> Len(l[<<t, i>>])])

markActivityFullyProcessedIfDone_AnyRecord(act, l, t, d) ==
    IF countDocuments(l, t) >= 1 /\ Applied(d)
    THEN MarkFullyProcessed(act, t)
    ELSE act

markActivityFullyProcessedIfDone(act, l, t, d) ==
    IF countDocuments(l, t) >= NumFollowers /\ Applied(d)
    THEN MarkFullyProcessed(act, t)
    ELSE act

\* ------------------------------------------------------------ OrderValidator
\* What the three fetches can give: the positions fetches an array, something that
\* is not an array, or a throw; the balance fetch a balance or a throw (-1).
ValidationInputs ==
    { [positions |-> "array", balance |-> b] : b \in Balances }
    \cup { [positions |-> "throw", balance |-> 0],
           [positions |-> "malformed", balance |-> 0],
           [positions |-> "array", balance |-> -1] }

NoValidation == [isValid |-> FALSE, reason |-> <<>>, myBalance |-> 0]
NoInput == [positions |-> "", balance |-> 0]

validateTrade_NoBalanceCheck(trade, fetched) ==
    IF fetched.positions # "array" \/ fetched.balance < 0
    THEN [isValid |-> FALSE, reason |-> <<"Validation failed">>, myBalance |-> 0]
    ELSE [isValid |-> TRUE, reason |-> <<>>, myBalance |-> fetched.balance]

validateTrade_NoArrayCheck(trade, fetched) ==
    IF fetched.positions = "throw" \/ fetched.balance < 0
    THEN [isValid |-> FALSE, reason |-> <<"Validation failed">>, myBalance |-> 0]
    ELSE IF trade.side = "BUY" /\ fetched.balance < trade.usdcSize
    THEN [isValid |-> FALSE,
          reason |-> <<"Insufficient balance", fetched.balance, trade.usdcSize>>,
          myBalance |-> 0]
    ELSE [isValid |-> TRUE, reason |-> <<>>, myBalance |-> fetched.balance]

validateTrade_BalanceCheckOnSell(trade, fetched) ==
    IF fetched.positions # "array" \/ fetched.balance < 0
    THEN [isValid |-> FALSE, reason |-> <<"Validation failed">>, myBalance |-> 0]
    ELSE IF trade.side = "SELL" /\ fetched.balance < trade.usdcSize
    THEN [isValid |-> FALSE,
          reason |-> <<"Insufficient balance", fetched.balance, trade.usdcSize>>,
          myBalance |-> 0]
    ELSE [isValid |-> TRUE, reason |-> <<>>, myBalance |-> fetched.balance]

validateTrade(trade, fetched) ==
    IF fetched.positions # "array" \/ fetched.balance < 0
    THEN [isValid |-> FALSE, reason |-> <<"Validation failed">>, myBalance |-> 0]
    ELSE IF trade.side = "BUY" /\ fetched.balance < trade.usdcSize
    THEN [isValid |-> FALSE,
          reason |-> <<"Insufficient balance", fetched.balance, trade.usdcSize>>,
          myBalance |-> 0]
    ELSE [isValid |-> TRUE, reason |-> <<>>, myBalance |-> fetched.balance]

\* ------------------------------------------------------------ collaborators
\* ErrorHandler.withErrorHandling logs the fault of the wrapped call and throws it on.
withErrorHandlingRethrows == TRUE

\* What postOrder leaves in the store when the order went through: outside
\* multi-wallet mode it marks the trade it was given as processed.
postOrderStatus(act, t, isMultiWallet) ==
    IF isMultiWallet THEN act ELSE MarkBot(act, t)


\* ------------------------------------------------------------ ExecutionEngine
isMultiWallet(f) == f # NoFollower

\* The fault slots a path did not consume stay "none"; the budget covers the rest.
FaultsFit(used, d0, d1, d2) ==
    /\ (0 \notin used => d0 = "none")
    /\ (1 \notin used => d1 = "none")
    /\ (2 \notin used => d2 = "none")
    /\ faults + Cost(d0) + Cost(d1) + Cost(d2) <= MaxFaults

executeTradeCatch_WritesStatus(act, l, t, f, d2) ==
    IF isMultiWallet(f)
    THEN [activity |-> MarkFailed(act, t),
          ledger |-> CopyExecutionCreate(l, ExecutionRecord(t, f, "failed", FALSE), d2).ledger]
    ELSE [activity |-> IF Applied(d2) THEN MarkFailed(act, t) ELSE act, ledger |-> l]

\* The catch block of executeTrade: record the attempt as failed, faults swallowed.
executeTradeCatch(act, l, t, f, d2) ==
    IF isMultiWallet(f)
    THEN [activity |-> act,
          ledger |-> CopyExecutionCreate(l, ExecutionRecord(t, f, "failed", FALSE), d2).ledger]
    ELSE [activity |-> IF Applied(d2) THEN MarkFailed(act, t) ELSE act, ledger |-> l]

\* One awaited write of executeTrade's try block (the ledger document in multi-wallet
\* mode, the status update otherwise), followed by the catch block when it throws.
executeTradeWrite(act, l, t, f, rec, mark, d1, d2) ==
    LET c == CopyExecutionCreate(l, rec, d1)
        l1 == IF isMultiWallet(f) THEN c.ledger ELSE l
        a1 == IF ~isMultiWallet(f) /\ Applied(d1) THEN MarkAs(act, t, mark) ELSE act
        threw == IF isMultiWallet(f) THEN c.threw ELSE Threw(d1)
        k == executeTradeCatch(a1, l1, t, f, d2)
    IN  IF threw
        THEN [activity |-> k.activity, ledger |-> k.ledger, next |-> "return",
              used |-> {1, 2}, posted |-> FALSE]
        ELSE [activity |-> a1, ledger |-> l1, next |-> "return",
              used |-> {1}, posted |-> FALSE]

\* executeTrade, lines 37-43: outside multi-wallet mode the trade is marked
\* processing first; a throw of that write ends the call in the catch block.
executeTradeMarkProcessing(act, l, t, f, d0, d2) ==
    LET a0 == IF ~isMultiWallet(f) /\ Applied(d0) THEN MarkProcessing(act, t) ELSE act
        k == executeTradeCatch(a0, l, t, f, d2)
    IN  IF ~isMultiWallet(f) /\ Threw(d0) /\ withErrorHandlingRethrows
        THEN [activity |-> k.activity, ledger |-> k.ledger, next |-> "return", used |-> {0, 2}]
        ELSE [activity |-> a0, ledger |-> l, next |-> "validate",
              used |-> IF isMultiWallet(f) THEN {} ELSE {0}]

\* executeTrade, lines 62-110 and the catch block: the rejection, the preview branch,
\* and the postOrder call, whose outcome res is "ok" or "throw".
executeTradeAfterValidation(act, l, t, f, v, isPreview, res, d1, d2) ==
    IF ~v.isValid
    THEN executeTradeWrite(act, l, t, f, ExecutionRecord(t, f, "failed", FALSE),
                           "failed", d1, d2)
    ELSE IF isPreview
    THEN executeTradeWrite(act, l, t, f, ExecutionRecord(t, f, "success", TRUE),
                           "bot", d1, d2)
    ELSE IF res = "throw" /\ withErrorHandlingRethrows
    THEN LET k == executeTradeCatch(act, l, t, f, d2)
         IN  [activity |-> k.activity, ledger |-> k.ledger, next |-> "return",
              used |-> {2}, posted |-> TRUE]
    ELSE IF isMultiWallet(f)
    THEN [activity |-> act, ledger |-> l, next |-> "record", used |-> {}, posted |-> TRUE]
    ELSE [activity |-> postOrderStatus(act, t, FALSE), ledger |-> l, next |-> "return",
          used |-> {}, posted |-> TRUE]

executeTradeRecord_RecordsFailed(act, l, t, f, d0, d1, d2) ==
    IF Threw(d0)
    THEN LET k == executeTradeCatch(act, l, t, f, d2)
         IN  [activity |-> k.activity, ledger |-> k.ledger, next |-> "return", used |-> {0, 2}]
    ELSE LET r == executeTradeWrite(act, l, t, f, ExecutionRecord(t, f, "failed", FALSE),
                                    "bot", d1, d2)
         IN  [activity |-> r.activity, ledger |-> r.ledger, next |-> "return",
              used |-> r.used \cup {0}]

\* executeTrade, lines 112-121: after the order, findById and the success document.
executeTradeRecord(act, l, t, f, d0, d1, d2) ==
    IF Threw(d0)
    THEN LET k == executeTradeCatch(act, l, t, f, d2)
         IN  [activity |-> k.activity, ledger |-> k.ledger, next |-> "return", used |-> {0, 2}]
    ELSE LET r == executeTradeWrite(act, l, t, f, ExecutionRecord(t, f, "success", FALSE),
                                    "bot", d1, d2)
         IN  [activity |-> r.activity, ledger |-> r.ledger, next |-> "return",
              used |-> r.used \cup {0}]

\* ------------------------------------------------------------ aggregated path
\* getReadyAggregatedTrades: the groups past the window leave the buffer, those that
\* meet the minimum as ready, the others to be marked skipped.
getReadyAggregatedTrades_KeepTooSmall(buf, time) ==
    [ready |-> SelectSeq(buf, LAMBDA g : WindowElapsed(g, time) /\ MeetsMinimum(g)),
     tooSmall |-> SelectSeq(buf, LAMBDA g : WindowElapsed(g, time) /\ ~MeetsMinimum(g)),
     buffer |-> SelectSeq(buf, LAMBDA g : ~(WindowElapsed(g, time) /\ MeetsMinimum(g)))]

getReadyAggregatedTrades(buf, time) ==
    [ready |-> SelectSeq(buf, LAMBDA g : WindowElapsed(g, time) /\ MeetsMinimum(g)),
     tooSmall |-> SelectSeq(buf, LAMBDA g : WindowElapsed(g, time) /\ ~MeetsMinimum(g)),
     buffer |-> SelectSeq(buf, LAMBDA g : ~WindowElapsed(g, time))]

SeqIds(groups) == UNION { GroupIds(groups[i]) : i \in 1..Len(groups) }

\* ------------------------------------------------------------ circuit breaker
\* What a CircuitBreakerError carries (code, isRetryable, severity).
CircuitBreakerError_NotRetryable ==
    [code |-> "CIRCUIT_BREAKER_ERROR", isRetryable |-> FALSE, severity |-> "high"]

CircuitBreakerError ==
    [code |-> "CIRCUIT_BREAKER_ERROR", isRetryable |-> TRUE, severity |-> "high"]

NoError == [code |-> "", isRetryable |-> FALSE, severity |-> ""]
\* whatever the wrapped operation threw
OperationError == [code |-> "NETWORK_ERROR", isRetryable |-> TRUE, severity |-> "medium"]

\* A breaker as the registry creates it; inFlight: a wrapped operation is running.
NewBreaker == [state |-> "CLOSED", failures |-> 0, lastFailureTime |-> 0, inFlight |-> FALSE]

CoolDownElapsed(b, time) == time - b.lastFailureTime >= CoolDownTicks

\* execute rejects the call without running the operation
FailsFast(b, time) == b.state = "OPEN" /\ ~CoolDownElapsed(b, time)

\* execute lets the call through; past the cool-down an OPEN breaker half-opens
LetThrough(b) ==
    [b EXCEPT !.state = IF @ = "OPEN" THEN "HALF_OPEN" ELSE @, !.inFlight = TRUE]

onSuccess(b) == [b EXCEPT !.state = "CLOSED", !.failures = 0, !.inFlight = FALSE]

onFailure_StaleTime(b, time) ==
    [b EXCEPT !.failures = @ + 1, !.inFlight = FALSE,
              !.state = IF b.state = "HALF_OPEN" \/ b.failures + 1 >= FailureThreshold
                        THEN "OPEN" ELSE @]

onFailure(b, time) ==
    [b EXCEPT !.failures = @ + 1, !.lastFailureTime = time, !.inFlight = FALSE,
              !.state = IF b.state = "HALF_OPEN" \/ b.failures + 1 >= FailureThreshold
                        THEN "OPEN" ELSE @]

\* ------------------------------------------------------------ initial state
BreakerNames == {"polymarket-validation-positions", "polymarket-validation-balance"}

\* Any configuration: either executor, aggregation and preview on or off; the store
\* is empty and the monitor is past its first run.
\* the state after construction, whatever clients were handed over
InitState ==
    /\ multi \in BOOLEAN
    /\ aggEnabled \in BOOLEAN
    /\ preview \in BOOLEAN
    /\ activity = [t \in TradeIds |-> NoTrade]
    /\ ledger = [k \in TradeIds \X Followers |-> <<>>]
    /\ buffer = <<>>
    /\ pc = "top"
    /\ trades = <<>>
    /\ fq = <<>>
    /\ readyq = <<>>
    /\ cur = NoValidation
    /\ vin = NoInput
    /\ isRunning = TRUE
    /\ now = 0
    /\ faults = 0
    /\ crashes = 0
    /\ monFirstRun = FALSE
    /\ postCount = [k \in Pairs |-> 0]
    /\ aggOrders = {}
    /\ doneBy = [t \in TradeIds |-> "none"]
    /\ skipped = {}
    /\ cb = [n \in BreakerNames |-> NewBreaker]
    /\ cbNow = 0
    /\ cbLast = [name |-> "", invoked |-> FALSE, result |-> "", error |-> NoError]

\* index-executor.ts creates one client per follower wallet
Init == InitState /\ numClients = NumFollowers

\* ------------------------------------------------------------ monitor
MonitorFirstRun_NoFilter ==
    /\ monFirstRun
    /\ monFirstRun' = FALSE
    /\ activity' = [t \in TradeIds |->
                      IF activity[t].present
                      THEN [activity[t] EXCEPT !.bot = TRUE, !.botExcutedTime = 999]
                      ELSE activity[t]]
    /\ doneBy' = [t \in TradeIds |->
                      IF activity[t].present /\ ~activity[t].bot THEN "monitor" ELSE doneBy[t]]
    /\ UNCHANGED <<configVars, ledger, loopVars, faults, crashes,
                   postCount, aggOrders, skipped, breakerVars>>

\* tradeMonitor's first run: every document with bot false is marked processed.
MonitorFirstRun ==
    /\ monFirstRun
    /\ monFirstRun' = FALSE
    /\ activity' = [t \in TradeIds |->
                      IF activity[t].present /\ ~activity[t].bot
                      THEN [activity[t] EXCEPT !.bot = TRUE, !.botExcutedTime = 999]
                      ELSE activity[t]]
    /\ doneBy' = [t \in TradeIds |->
                      IF activity[t].present /\ ~activity[t].bot THEN "monitor" ELSE doneBy[t]]
    /\ UNCHANGED <<configVars, ledger, loopVars, faults, crashes,
                   postCount, aggOrders, skipped, breakerVars>>

\* fetchTradeData saves an activity it has not stored yet, as pending.
MonitorInsert ==
    /\ ~monFirstRun
    /\ \E t \in TradeIds, k \in TradeKinds :
        /\ ~activity[t].present
        /\ \A u \in TradeIds : u < t => activity[u].present
        /\ activity' = [activity EXCEPT ![t] =
                          [present |-> TRUE, side |-> k.side, usdcSize |-> k.usdcSize,
                           price |-> k.price, conditionId |-> k.conditionId,
                           bot |-> FALSE, botExcutedTime |-> 0,
                           copies |-> 1, polls |-> 1]]
    /\ UNCHANGED <<configVars, ledger, loopVars, envVars, ghostVars, breakerVars>>

\* the monitor process is started again
MonitorRestart ==
    /\ ~monFirstRun
    /\ crashes < MaxCrashes
    /\ crashes' = crashes + 1
    /\ monFirstRun' = TRUE
    /\ UNCHANGED <<configVars, storeVars, loopVars, faults, ghostVars, breakerVars>>

\* ------------------------------------------------------------ executor loop
ReadTempTrades_FaultEscapes ==
    /\ pc = "top"
    /\ isRunning
    /\ \E d \in ReadFaults :
        /\ faults + Cost(d) <= MaxFaults
        /\ faults' = faults + Cost(d)
        /\ trades' = readTempTrades(activity, d)
        /\ pc' = IF Threw(d) THEN "stopped" ELSE "trades"
    /\ UNCHANGED <<configVars, storeVars, buffer, fq, readyq, cur, vin, isRunning, now,
                   crashes, monFirstRun, ghostVars, breakerVars>>

\* while (isRunning) { trades = await readTempTrades(); ...
ReadTempTrades ==
    /\ pc = "top"
    /\ isRunning
    /\ \E d \in ReadFaults :
        /\ faults + Cost(d) <= MaxFaults
        /\ faults' = faults + Cost(d)
        /\ trades' = readTempTrades(activity, d)
    /\ pc' = "trades"
    /\ UNCHANGED <<configVars, storeVars, buffer, fq, readyq, cur, vin, isRunning, now,
                   crashes, monFirstRun, ghostVars, breakerVars>>

\* the loop condition is false: 'Trade executor stopped'
ExitLoop ==
    /\ pc = "top"
    /\ ~isRunning
    /\ pc' = "stopped"
    /\ UNCHANGED <<configVars, storeVars, buffer, trades, fq, readyq, cur, vin, isRunning,
                   now, envVars, ghostVars, breakerVars>>

IsBelowMinimumBuy(trade) ==
    trade.side = "BUY" /\ trade.usdcSize < TRADE_AGGREGATION_MIN_TOTAL_USD

ShouldBuffer_AnySide(trade) == trade.usdcSize < TRADE_AGGREGATION_MIN_TOTAL_USD

\* the test that sends a pending trade to the aggregation buffer
ShouldBuffer(trade) == IsBelowMinimumBuy(trade)

\* The group a trade would join has room left (the bound on the buffer).
GroupHasRoom(buf, trade) ==
    LET idx == BufferIndex(buf, getAggregationKey(trade))
    IN  IF idx = 0 THEN TRUE ELSE Len(buf[idx].trades) < MaxGroupLen

\* One turn of "for (const trade of trades)": buffer the trade, or look up the
\* followers still to attempt.
ProcessTrade ==
    /\ pc = "trades"
    /\ trades # <<>>
    /\ LET trade == Head(trades) IN
       IF aggEnabled /\ ShouldBuffer(trade)
       THEN /\ GroupHasRoom(buffer, trade)
            /\ buffer' = addToAggregationBuffer(buffer, trade, now)
            /\ trades' = Tail(trades)
            /\ UNCHANGED <<pc, fq, faults>>
       ELSE IF ~multi
       THEN /\ fq' = <<NoFollower>>
            /\ pc' = "followers"
            /\ UNCHANGED <<buffer, trades, faults>>
       ELSE \E d \in ReadFaults :
            /\ faults + Cost(d) <= MaxFaults
            /\ faults' = faults + Cost(d)
            /\ buffer' = buffer
            /\ IF ~Threw(d)
               THEN /\ fq' = getPendingFollowerIndices(ledger, trade.id)
                    /\ pc' = "followers"
                    /\ trades' = trades
               ELSE IF aggEnabled
               THEN /\ trades' = Tail(trades) /\ pc' = "trades" /\ fq' = <<>>
               ELSE /\ trades' = <<>> /\ pc' = "sleep" /\ fq' = <<>>
    /\ UNCHANGED <<configVars, storeVars, readyq, cur, vin, isRunning, now,
                   crashes, monFirstRun, ghostVars, breakerVars>>

\* the for loop over the trades is over
TradesDone ==
    /\ pc = "trades"
    /\ trades = <<>>
    /\ pc' = IF aggEnabled THEN "ready" ELSE "sleep"
    /\ UNCHANGED <<configVars, storeVars, buffer, trades, fq, readyq, cur, vin, isRunning,
                   now, envVars, ghostVars, breakerVars>>

\* executeTrade for the next pending follower: mark processing, validateTrade.
ExecuteTradeValidate ==
    /\ pc = "followers"
    /\ fq # <<>>
    /\ LET trade == Head(trades)
           f == Head(fq)
       IN \E in \in ValidationInputs, d0 \in WriteFaults, d2 \in WriteFaults :
          LET r == executeTradeMarkProcessing(activity, ledger, trade.id, f, d0, d2)
          IN  /\ FaultsFit(r.used, d0, "none", d2)
              /\ faults' = faults + Cost(d0) + Cost(d2)
              /\ activity' = r.activity
              /\ ledger' = r.ledger
              /\ IF r.next = "validate"
                 THEN /\ pc' = "validated" /\ fq' = fq
                      /\ cur' = validateTrade(trade, in) /\ vin' = in
                 ELSE /\ pc' = "followers" /\ fq' = Tail(fq)
                      /\ cur' = NoValidation /\ vin' = NoInput
    /\ UNCHANGED <<configVars, buffer, trades, readyq, isRunning, now, crashes,
                   monFirstRun, ghostVars, breakerVars>>

ExecuteTradeOrder_AbortsOnFailure ==
    /\ pc = "validated"
    /\ LET t == Head(trades).id
           f == Head(fq)
       IN \E res \in {"ok", "throw"}, d1 \in WriteFaults, d2 \in WriteFaults :
          LET r == executeTradeAfterValidation(activity, ledger, t, f, cur, preview, res, d1, d2)
          IN  /\ FaultsFit(r.used, "none", d1, d2)
              /\ ~r.posted => res = "ok"
              /\ faults' = faults + Cost(d1) + Cost(d2)
              /\ postCount' = IF r.posted THEN [postCount EXCEPT ![<<t, f>>] = @ + 1]
                              ELSE postCount
              /\ activity' = r.activity
              /\ ledger' = r.ledger
              /\ doneBy' = IF r.activity[t].bot /\ ~activity[t].bot
                           THEN [doneBy EXCEPT ![t] = "immediate"] ELSE doneBy
              /\ vin' = NoInput
              /\ IF r.next = "record"
                 THEN pc' = "record" /\ fq' = fq /\ cur' = cur
                 ELSE /\ pc' = "followers" /\ cur' = NoValidation
                      /\ fq' = IF ~cur.isValid \/ res = "throw" THEN <<>> ELSE Tail(fq)
    /\ UNCHANGED <<configVars, buffer, trades, readyq, isRunning, now, crashes,
                   monFirstRun, aggOrders, skipped, breakerVars>>

\* executeTrade after validateTrade returned: rejection, preview, or the order.
ExecuteTradeOrder ==
    /\ pc = "validated"
    /\ LET t == Head(trades).id
           f == Head(fq)
       IN \E res \in {"ok", "throw"}, d1 \in WriteFaults, d2 \in WriteFaults :
          LET r == executeTradeAfterValidation(activity, ledger, t, f, cur, preview, res, d1, d2)
          IN  /\ FaultsFit(r.used, "none", d1, d2)
              /\ ~r.posted => res = "ok"
              /\ faults' = faults + Cost(d1) + Cost(d2)
              /\ postCount' = IF r.posted THEN [postCount EXCEPT ![<<t, f>>] = @ + 1]
                              ELSE postCount
              /\ activity' = r.activity
              /\ ledger' = r.ledger
              /\ doneBy' = IF r.activity[t].bot /\ ~activity[t].bot
                           THEN [doneBy EXCEPT ![t] = "immediate"] ELSE doneBy
              /\ vin' = NoInput
              /\ IF r.next = "record"
                 THEN pc' = "record" /\ fq' = fq /\ cur' = cur
                 ELSE pc' = "followers" /\ fq' = Tail(fq) /\ cur' = NoValidation
    /\ UNCHANGED <<configVars, buffer, trades, readyq, isRunning, now, crashes,
                   monFirstRun, aggOrders, skipped, breakerVars>>

\* executeTrade: the ledger write after a successful order.
ExecuteTradeRecord ==
    /\ pc = "record"
    /\ LET t == Head(trades).id
           f == Head(fq)
       IN \E d0 \in ReadFaults, d1 \in WriteFaults, d2 \in WriteFaults :
          LET r == executeTradeRecord(activity, ledger, t, f, d0, d1, d2)
          IN  /\ FaultsFit(r.used, d0, d1, d2)
              /\ faults' = faults + Cost(d0) + Cost(d1) + Cost(d2)
              /\ activity' = r.activity
              /\ ledger' = r.ledger
    /\ pc' = "followers"
    /\ fq' = Tail(fq)
    /\ cur' = NoValidation
    /\ vin' = NoInput
    /\ UNCHANGED <<configVars, buffer, trades, readyq, isRunning, now, crashes,
                   monFirstRun, ghostVars, breakerVars>>

\* Every pending follower was attempted: markActivityFullyProcessedIfDone (multi-wallet).
MarkActivity ==
    /\ pc = "followers"
    /\ fq = <<>>
    /\ LET t == Head(trades).id IN
       IF ~multi
       THEN /\ trades' = Tail(trades) /\ pc' = "trades"
            /\ UNCHANGED <<activity, faults, doneBy>>
       ELSE \E d0 \in ReadFaults, d1 \in WriteFaults :
            LET writes == countDocuments(ledger, t) >= NumFollowers
                threw == Threw(d0) \/ (writes /\ Threw(d1))
                act1 == IF Threw(d0) THEN activity
                        ELSE markActivityFullyProcessedIfDone(activity, ledger, t, d1)
            IN  /\ (Threw(d0) \/ ~writes) => d1 = "none"
                /\ faults + Cost(d0) + Cost(d1) <= MaxFaults
                /\ faults' = faults + Cost(d0) + Cost(d1)
                /\ activity' = act1
                /\ doneBy' = IF act1[t].bot /\ ~activity[t].bot
                             THEN [doneBy EXCEPT ![t] = "immediate"] ELSE doneBy
                /\ IF threw /\ ~aggEnabled
                   THEN trades' = <<>> /\ pc' = "sleep"
                   ELSE trades' = Tail(trades) /\ pc' = "trades"
    /\ UNCHANGED <<configVars, ledger, buffer, fq, readyq, cur, vin, isRunning, now,
                   crashes, monFirstRun, postCount, aggOrders, skipped, breakerVars>>

GetReadyAggregatedTrades ==
    /\ pc = "ready"
    /\ LET r == getReadyAggregatedTrades(buffer, now)
           toMark == SeqIds(r.tooSmall)
       IN \E lost \in SUBSET toMark :
          /\ faults + Cardinality(lost) <= MaxFaults
          /\ faults' = faults + Cardinality(lost)
          /\ activity' = MarkAll(activity, toMark \ lost, "bot")
          /\ doneBy' = [t \in TradeIds |->
                          IF t \in toMark \ lost /\ ~activity[t].bot THEN "skipped" ELSE doneBy[t]]
          /\ skipped' = skipped \cup toMark
          /\ buffer' = r.buffer
          /\ readyq' = r.ready
          /\ pc' = IF r.ready # <<>> THEN "agg" ELSE "sleep"
    /\ UNCHANGED <<configVars, ledger, trades, fq, cur, vin, isRunning, now, crashes,
                   monFirstRun, postCount, aggOrders, breakerVars>>

\* executeAggregatedTrades for the next ready group: mark the constituents
\* processing, validate the first one.
ExecuteAggregatedValidate ==
    /\ pc = "agg"
    /\ readyq # <<>>
    /\ LET agg == Head(readyq)
           ids == GroupIds(agg)
       IN \E in \in ValidationInputs, lostP \in SUBSET ids :
          /\ faults + Cardinality(lostP) <= MaxFaults
          /\ faults' = faults + Cardinality(lostP)
          /\ activity' = MarkAll(activity, ids \ lostP, "processing")
          /\ cur' = validateTrade(agg.trades[1], in)
          /\ vin' = in
    /\ pc' = "aggValidated"
    /\ UNCHANGED <<configVars, ledger, buffer, trades, fq, readyq, isRunning, now, crashes,
                   monFirstRun, ghostVars, breakerVars>>

\* the first constituent handed to postOrder unchanged (the aggregated values dropped)
syntheticTrade_TemplateOnly(agg) ==
    [id |-> agg.trades[1].id,
     usdcSize |-> agg.trades[1].usdcSize,
     price |-> [num |-> agg.trades[1].price, den |-> 1]]

\* the trade executeAggregatedTrades hands to postOrder: the first constituent as
\* template, with the group's total notional and average price
syntheticTrade(agg) ==
    [id |-> agg.trades[1].id,
     usdcSize |-> agg.totalUsdcSize,
     price |-> agg.averagePrice]

ExecuteAggregatedOrder_AbortsOnThrow ==
    /\ pc = "aggValidated"
    /\ LET agg == Head(readyq)
           ids == GroupIds(agg)
           first == agg.trades[1].id
       IN \E res \in {"ok", "throw"}, lostF \in SUBSET ids :
          /\ (cur.isValid /\ res = "ok") => lostF = {}
          /\ ~cur.isValid => res = "ok"
          /\ faults + Cardinality(lostF) <= MaxFaults
          /\ faults' = faults + Cardinality(lostF)
          /\ aggOrders' = IF cur.isValid
                          THEN aggOrders \cup
                                 {[ids |-> ids, first |-> syntheticTrade(agg).id,
                                   usdcSize |-> syntheticTrade(agg).usdcSize,
                                   price |-> syntheticTrade(agg).price,
                                   balance |-> cur.myBalance]}
                          ELSE aggOrders
          /\ IF cur.isValid /\ res = "ok"
             THEN /\ activity' = postOrderStatus(activity, first, FALSE)
                  /\ doneBy' = IF ~activity[first].bot
                               THEN [doneBy EXCEPT ![first] = "aggregated"] ELSE doneBy
             ELSE /\ activity' = MarkAll(activity, ids \ lostF, "failed")
                  /\ doneBy' = doneBy
    /\ pc' = "agg"
    /\ cur' = NoValidation
    /\ vin' = NoInput
    /\ readyq' = IF cur.isValid /\ activity' # postOrderStatus(activity, Head(readyq).trades[1].id, FALSE)
                 THEN <<>> ELSE Tail(readyq)
    /\ UNCHANGED <<configVars, ledger, buffer, trades, fq, isRunning, now, crashes,
                   monFirstRun, postCount, skipped, breakerVars>>

\* executeAggregatedTrades after the validation: all constituents failed on
\* rejection, else the postOrder call for the synthetic trade.
ExecuteAggregatedOrder ==
    /\ pc = "aggValidated"
    /\ LET agg == Head(readyq)
           ids == GroupIds(agg)
           first == agg.trades[1].id
       IN \E res \in {"ok", "throw"}, lostF \in SUBSET ids :
          /\ (cur.isValid /\ res = "ok") => lostF = {}
          /\ ~cur.isValid => res = "ok"
          /\ faults + Cardinality(lostF) <= MaxFaults
          /\ faults' = faults + Cardinality(lostF)
          /\ aggOrders' = IF cur.isValid
                          THEN aggOrders \cup
                                 {[ids |-> ids, first |-> syntheticTrade(agg).id,
                                   usdcSize |-> syntheticTrade(agg).usdcSize,
                                   price |-> syntheticTrade(agg).price,
                                   balance |-> cur.myBalance]}
                          ELSE aggOrders
          /\ IF cur.isValid /\ res = "ok"
             THEN /\ activity' = postOrderStatus(activity, first, FALSE)
                  /\ doneBy' = IF ~activity[first].bot
                               THEN [doneBy EXCEPT ![first] = "aggregated"] ELSE doneBy
             ELSE /\ activity' = MarkAll(activity, ids \ lostF, "failed")
                  /\ doneBy' = doneBy
    /\ pc' = "agg"
    /\ cur' = NoValidation
    /\ vin' = NoInput
    /\ readyq' = Tail(readyq)
    /\ UNCHANGED <<configVars, ledger, buffer, trades, fq, isRunning, now, crashes,
                   monFirstRun, postCount, skipped, breakerVars>>

\* every ready group was executed
AggregatedDone ==
    /\ pc = "agg"
    /\ readyq = <<>>
    /\ pc' = "sleep"
    /\ UNCHANGED <<configVars, storeVars, buffer, trades, fq, readyq, cur, vin, isRunning,
                   now, envVars, ghostVars, breakerVars>>

\* if (!isRunning) break; await sleep(300): time may pass before the next iteration.
Sleep ==
    /\ pc = "sleep"
    /\ IF ~isRunning
       THEN pc' = "stopped" /\ now' = now
       ELSE pc' = "top" /\ \E dt \in {0, 1} : now + dt <= MaxTime /\ now' = now + dt
    /\ UNCHANGED <<configVars, storeVars, buffer, trades, fq, readyq, cur, vin, isRunning,
                   envVars, ghostVars, breakerVars>>

StopTradeExecutor ==
    /\ isRunning
    /\ pc # "stopped"
    /\ isRunning' = FALSE
    /\ UNCHANGED <<configVars, storeVars, buffer, pc, trades, fq, readyq, cur, vin, now,
                   envVars, ghostVars, breakerVars>>

\* The executor process dies and is started again: everything in memory is gone.
CrashRestart ==
    /\ crashes < MaxCrashes
    /\ crashes' = crashes + 1
    /\ buffer' = <<>>
    /\ pc' = "top"
    /\ trades' = <<>>
    /\ fq' = <<>>
    /\ readyq' = <<>>
    /\ cur' = NoValidation
    /\ vin' = NoInput
    /\ isRunning' = TRUE
    /\ UNCHANGED <<configVars, storeVars, now, faults, monFirstRun, ghostVars, breakerVars>>

Next ==
    \/ MonitorInsert
    \/ ReadTempTrades
    \/ ProcessTrade
    \/ TradesDone
    \/ ExecuteTradeValidate
    \/ ExecuteTradeOrder
    \/ ExecuteTradeRecord
    \/ MarkActivity
    \/ GetReadyAggregatedTrades
    \/ ExecuteAggregatedValidate
    \/ ExecuteAggregatedOrder
    \/ AggregatedDone
    \/ Sleep
    \/ CrashRestart

Spec == Init /\ [][Next]_vars

\* gracefulShutdown: 2 s after stopTradeExecutor() the store is closed and
\* process.exit(0) ends the process, wherever the iteration in progress stands by
\* then: taken here while a trade or a group is being executed (fetches, order,
\* store writes), the part of an iteration that lasts.
ProcessExit ==
    /\ ~isRunning
    /\ pc \in {"followers", "validated", "record", "aggValidated"}
    /\ pc' = "killed"
    /\ UNCHANGED <<configVars, storeVars, buffer, trades, fq, readyq, cur, vin, isRunning,
                   now, envVars, ghostVars, breakerVars>>

\* The pipeline with the executor's stop flag and the shutdown of its process.
NextStop == Next \/ StopTradeExecutor \/ ExitLoop \/ ProcessExit

SpecStop == Init /\ [][NextStop]_vars

\* The pipeline with restarts of the monitor process.
NextMonitor == Next \/ MonitorFirstRun \/ MonitorRestart

SpecMonitor == Init /\ [][NextMonitor]_vars

\* ------------------------------------------------------------ aggregation buffer alone
\* Notionals and prices of the trades handed to addToAggregationBuffer.
SmallSizes == {20, 30, 40}
Prices == {50, 52, 55}

InitAgg == Init /\ multi /\ aggEnabled /\ ~preview

\* addToAggregationBuffer with one more small BUY of the same trader and market
AggregatorAdd ==
    /\ \E size \in SmallSizes, price \in Prices :
        LET n == IF buffer = <<>> THEN 0 ELSE Len(buffer[1].trades)
            trade == [id |-> n + 1, userAddress |-> <<"a">>, conditionId |-> <<"m">>,
                      asset |-> <<"m">>,
                      side |-> "BUY", usdcSize |-> size, price |-> price]
        IN  /\ GroupHasRoom(buffer, trade)
            /\ buffer' = addToAggregationBuffer(buffer, trade, now)
    /\ UNCHANGED <<configVars, storeVars, pc, trades, fq, readyq, cur, vin, isRunning, now,
                   envVars, ghostVars, breakerVars>>

AggregatorTick ==
    /\ now < MaxTime
    /\ now' = now + 1
    /\ UNCHANGED <<configVars, storeVars, buffer, pc, trades, fq, readyq, cur, vin,
                   isRunning, envVars, ghostVars, breakerVars>>

NextAgg == AggregatorAdd \/ AggregatorTick

SpecAgg == InitAgg /\ [][NextAgg]_vars

\* ------------------------------------------------------------ aggregation keys alone
\* Source accounts, markets, assets and sides of the trades handed to
\* addToAggregationBuffer: hexadecimal addresses and ids, none holds a ':'.
Users == {<<"a">>, <<"a", "b">>}
Markets == {<<"c">>, <<"b", "c">>}
Assets == {<<"d">>}
Sides == {"BUY", "SELL"}
MaxGroups == 2

\* addToAggregationBuffer with a trade of any source account, market, asset and side
AggregatorAddAny ==
    /\ \E user \in Users, market \in Markets, asset \in Assets, side \in Sides :
        LET trade == [id |-> 1, userAddress |-> user, conditionId |-> market,
                      asset |-> asset, side |-> side, usdcSize |-> 40, price |-> 50]
        IN  /\ GroupHasRoom(buffer, trade)
            /\ BufferIndex(buffer, getAggregationKey(trade)) = 0 => Len(buffer) < MaxGroups
            /\ buffer' = addToAggregationBuffer(buffer, trade, now)
    /\ UNCHANGED <<configVars, storeVars, pc, trades, fq, readyq, cur, vin, isRunning, now,
                   envVars, ghostVars, breakerVars>>

NextKeys == AggregatorAddAny \/ AggregatorTick

SpecKeys == InitAgg /\ [][NextKeys]_vars

\* ------------------------------------------------------------ aggregation window alone
\* getReadyAggregatedTrades on the buffer as it stands: the groups past the window
\* leave it, the ready ones are returned; updateOne marks the constituents of the
\* groups below the minimum that are stored documents.
AggregatorReady ==
    /\ LET r == getReadyAggregatedTrades(buffer, now)
           toMark == { t \in SeqIds(r.tooSmall) : activity[t] # NoTrade }
       IN  /\ activity' = MarkAll(activity, toMark, "bot")
           /\ skipped' = skipped \cup toMark
           /\ buffer' = r.buffer
           /\ readyq' = r.ready
    /\ UNCHANGED <<configVars, ledger, pc, trades, fq, cur, vin, isRunning, now, faults,
                   crashes, monFirstRun, postCount, aggOrders, doneBy, breakerVars>>

NextWindow == AggregatorAddAny \/ AggregatorTick \/ AggregatorReady

SpecWindow == InitAgg /\ [][NextWindow]_vars

\* ------------------------------------------------------------ executeAggregatedTrades alone
\* The small BUYs the executor buffers.
SmallBuys == { k \in TradeKinds : k.side = "BUY" /\ k.usdcSize < TRADE_AGGREGATION_MIN_TOTAL_USD }

\* The market of each stored trade: one market per trade, so one group per trade.
MarketOf(t) == IF t = 1 THEN <<"m">> ELSE <<"n">>

StoredSmallBuy(k, t) ==
    [present |-> TRUE, side |-> k.side, usdcSize |-> k.usdcSize, price |-> k.price,
     conditionId |-> MarketOf(t), bot |-> FALSE, botExcutedTime |-> 0,
     copies |-> 1, polls |-> 1]

\* the buffer after the pending trade was read and buffered in n iterations
RECURSIVE BufferedTimes(_, _)
BufferedTimes(trade, n) ==
    IF n = 0 THEN <<>> ELSE addToAggregationBuffer(BufferedTimes(trade, n - 1), trade, 0)

\* executeAggregatedTrades is entered with one ready group per stored trade
InitAggExec ==
    /\ multi \in BOOLEAN
    /\ aggEnabled = TRUE
    /\ preview = FALSE
    /\ numClients = NumFollowers
    /\ \E kinds \in [TradeIds -> SmallBuys], times \in [TradeIds -> 2..MaxGroupLen] :
          /\ \A t \in TradeIds :
                kinds[t].usdcSize * times[t] >= TRADE_AGGREGATION_MIN_TOTAL_USD
          /\ activity = [t \in TradeIds |-> StoredSmallBuy(kinds[t], t)]
          /\ readyq = [t \in TradeIds |->
                          BufferedTimes(TradeWithUser(activity, t), times[t])[1]]
    /\ ledger = [k \in TradeIds \X Followers |-> <<>>]
    /\ buffer = <<>>
    /\ pc = "agg"
    /\ trades = <<>>
    /\ fq = <<>>
    /\ cur = NoValidation
    /\ vin = NoInput
    /\ isRunning = TRUE
    /\ now = WindowTicks
    /\ faults = 0
    /\ crashes = 0
    /\ monFirstRun = FALSE
    /\ postCount = [k \in Pairs |-> 0]
    /\ aggOrders = {}
    /\ doneBy = [t \in TradeIds |-> "none"]
    /\ skipped = {}
    /\ cb = [n \in BreakerNames |-> NewBreaker]
    /\ cbNow = 0
    /\ cbLast = [name |-> "", invoked |-> FALSE, result |-> "", error |-> NoError]

NextAggExec == ExecuteAggregatedValidate \/ ExecuteAggregatedOrder \/ AggregatedDone

SpecAggExec == InitAggExec /\ [][NextAggExec]_vars

\* ------------------------------------------------------------ fewer clients than followers
\* tradeExecutor(clobClients) with any number of clients up to one per follower
InitClients ==
    /\ InitState
    /\ multi
    /\ ~aggEnabled
    /\ numClients \in 1..NumFollowers

NextClients ==
    \/ MonitorInsert
    \/ ReadTempTrades
    \/ ProcessTrade
    \/ TradesDone
    \/ ExecuteTradeValidate
    \/ ExecuteTradeOrder
    \/ ExecuteTradeRecord
    \/ MarkActivity
    \/ Sleep

SpecClients == InitClients /\ [][NextClients]_vars

\* ------------------------------------------------------------ circuit breakers alone
InitBreaker == Init /\ multi /\ ~aggEnabled /\ ~preview

\* breaker.execute(operation) is entered
BreakerExecute ==
    /\ \E n \in BreakerNames :
        /\ ~cb[n].inFlight
        /\ IF FailsFast(cb[n], cbNow)
           THEN /\ cb' = cb
                /\ cbLast' = [name |-> n, invoked |-> FALSE, result |-> "circuit-open",
                              error |-> CircuitBreakerError]
           ELSE /\ cb' = [cb EXCEPT ![n] = LetThrough(@)]
                /\ cbLast' = [name |-> n, invoked |-> TRUE, result |-> "started",
                              error |-> NoError]
    /\ UNCHANGED <<configVars, storeVars, loopVars, envVars, ghostVars, cbNow>>

\* the wrapped operation returns or throws
BreakerSettle ==
    /\ \E n \in BreakerNames, ok \in BOOLEAN :
        /\ cb[n].inFlight
        /\ cb' = [cb EXCEPT ![n] = IF ok THEN onSuccess(@) ELSE onFailure(@, cbNow)]
        /\ cbLast' = [name |-> n, invoked |-> TRUE,
                      result |-> IF ok THEN "ok" ELSE "error",
                      error |-> IF ok THEN NoError ELSE OperationError]
    /\ UNCHANGED <<configVars, storeVars, loopVars, envVars, ghostVars, cbNow>>

BreakerTick ==
    /\ cbNow < MaxCbTime
    /\ cbNow' = cbNow + 1
    /\ UNCHANGED <<configVars, storeVars, loopVars, envVars, ghostVars, cb, cbLast>>

NextBreaker == BreakerExecute \/ BreakerSettle \/ BreakerTick

SpecBreaker == InitBreaker /\ [][NextBreaker]_vars

\* ------------------------------------------------------------ validateTrade's fetches
\* The three fetches of validateTrade and the breaker each one is run through.
Fetches == {"myPositions", "userPositions", "myBalance"}

BreakerOf(fetch) ==
    IF fetch = "myBalance" THEN "polymarket-validation-balance"
    ELSE "polymarket-validation-positions"

\* one fetch through its breaker: refused, or run to success or failure
ValidateFetch ==
    /\ \E f \in Fetches, ok \in BOOLEAN :
        LET n == BreakerOf(f) IN
        /\ vin' = [fetch |-> f, ok |-> ok]
        /\ IF FailsFast(cb[n], cbNow)
           THEN /\ ~ok
                /\ cb' = cb
                /\ cbLast' = [name |-> n, invoked |-> FALSE, result |-> "circuit-open",
                              error |-> CircuitBreakerError]
           ELSE /\ cb' = [cb EXCEPT ![n] = IF ok THEN onSuccess(LetThrough(@))
                                           ELSE onFailure(LetThrough(@), cbNow)]
                /\ cbLast' = [name |-> n, invoked |-> TRUE,
                              result |-> IF ok THEN "ok" ELSE "error",
                              error |-> IF ok THEN NoError ELSE OperationError]
    /\ UNCHANGED <<configVars, storeVars, buffer, pc, trades, fq, readyq, cur, isRunning,
                   now, envVars, ghostVars, cbNow>>

NextFetch == ValidateFetch \/ BreakerTick

SpecFetch == InitBreaker /\ [][NextFetch]_vars

\* ------------------------------------------------------------ validateTrade alone
\* What one wrapped fetch can do: return an array, return something else, throw, or
\* be refused by its open breaker; -1 and -2 are the balance fetch throwing and
\* being refused.
PositionsOutcomes == {"array", "malformed", "throw", "circuit-open"}
BalanceOutcomes == Balances \cup {-1, -2}

\* What validateTrade sees of the three fetches: Promise.all rejects when either
\* positions fetch rejects, and a refused call rejects like a thrown one.
Fetched(my, user, bal) ==
    [positions |-> IF {my, user} \cap {"throw", "circuit-open"} # {} THEN "throw"
                   ELSE IF "malformed" \in {my, user} THEN "malformed"
                   ELSE "array",
     balance |-> IF bal < 0 THEN -1 ELSE bal]

InitValidate == Init /\ multi /\ ~aggEnabled /\ ~preview

\* validateTrade(trade, userAddress, proxyWallet) on any trade and any fetch outcomes
ValidateTradeCall ==
    /\ \E k \in TradeKinds, my \in PositionsOutcomes, user \in PositionsOutcomes,
          bal \in BalanceOutcomes :
        LET trade == [id |-> 1, userAddress |-> <<"a">>, conditionId |-> k.conditionId,
                      asset |-> k.conditionId, side |-> k.side, usdcSize |-> k.usdcSize,
                      price |-> k.price]
        IN  /\ trades' = <<trade>>
            /\ vin' = [my |-> my, user |-> user, bal |-> bal]
            /\ cur' = validateTrade(trade, Fetched(my, user, bal))
    /\ UNCHANGED <<configVars, storeVars, buffer, pc, fq, readyq, isRunning, now,
                   envVars, ghostVars, breakerVars>>

NextValidate == ValidateTradeCall

SpecValidate == InitValidate /\ [][NextValidate]_vars

\* ------------------------------------------------------------ monitor alone
NewActivity(k) ==
    [present |-> TRUE, side |-> k.side, usdcSize |-> k.usdcSize, price |-> k.price,
     conditionId |-> k.conditionId, bot |-> FALSE, botExcutedTime |-> 0,
     copies |-> 1, polls |-> 1]

MonitorPoll_NoLookup ==
    /\ ~monFirstRun
    /\ \E t \in TradeIds, k \in TradeKinds, d1 \in WriteFaults :
        /\ \A u \in TradeIds : u < t => activity[u].present
        /\ faults + Cost(d1) <= MaxFaults
        /\ faults' = faults + Cost(d1)
        /\ IF activity[t].present
           THEN /\ activity[t].polls < MaxPolls
                /\ activity' = IF Applied(d1)
                               THEN [activity EXCEPT ![t].polls = @ + 1, ![t].copies = @ + 1]
                               ELSE [activity EXCEPT ![t].polls = @ + 1]
           ELSE activity' = IF Applied(d1) THEN [activity EXCEPT ![t] = NewActivity(k)]
                            ELSE activity
    /\ UNCHANGED <<configVars, ledger, loopVars, crashes, monFirstRun, ghostVars, breakerVars>>

\* fetchTradeData for one activity of the API's answer, new or returned before:
\* findOne by transactionHash, then save unless a document was found.
MonitorPoll ==
    /\ ~monFirstRun
    /\ \E t \in TradeIds, k \in TradeKinds, d0 \in ReadFaults, d1 \in WriteFaults :
        /\ \A u \in TradeIds : u < t => activity[u].present
        /\ (Threw(d0) \/ activity[t].present) => d1 = "none"
        /\ faults + Cost(d0) + Cost(d1) <= MaxFaults
        /\ faults' = faults + Cost(d0) + Cost(d1)
        /\ IF activity[t].present
           THEN /\ activity[t].polls < MaxPolls
                /\ activity' = [activity EXCEPT ![t].polls = @ + 1]
           ELSE activity' = IF ~Threw(d0) /\ Applied(d1)
                            THEN [activity EXCEPT ![t] = NewActivity(k)]
                            ELSE activity
    /\ UNCHANGED <<configVars, ledger, loopVars, crashes, monFirstRun, ghostVars, breakerVars>>

InitPoll == Init /\ multi /\ ~aggEnabled /\ ~preview

NextPoll == MonitorPoll \/ MonitorFirstRun \/ MonitorRestart

SpecPoll == InitPoll /\ [][NextPoll]_vars

\* ------------------------------------------------------------ properties
BufferedIds == SeqIds(buffer)
ReadyIds == SeqIds(readyq)
ReadIds == { trades[i].id : i \in 1..Len(trades) }

\* C1: the ledger holds at most one execution record per (trade, follower), whatever
\* the iterations, store faults and restarts before.
C1_AtMostOneRecord ==
    \A k \in TradeIds \X Followers : Len(ledger[k]) <= 1

\* a pair ordered twice, across a fault and a restart, still has its single record
C1_Witness ==
    \E k \in TradeIds \X Followers :
        Len(ledger[k]) = 1 /\ postCount[k] = 2 /\ crashes > 0 /\ faults > 0

\* C2 as stated: the gateway is called at most once per (trade, follower) over
\* the whole run, store faults and restarts included.
C2_GatewayAtMostOnce ==
    \A k \in Pairs : postCount[k] <= 1

\* C3 as stated: in preview mode neither executeTrade nor executeAggregatedTrades
\* ever calls the gateway.
C3_PreviewNeverOrders ==
    preview => (aggOrders = {} /\ \A k \in Pairs : postCount[k] = 0)

\* C4 as stated: in multi-wallet mode a trade that is DONE has exactly one
\* execution record for each follower, whichever path handled it.
C4_DoneHasAllRecords ==
    \A t \in TradeIds :
        (multi /\ activity[t].bot /\ doneBy[t] \in {"immediate", "aggregated", "skipped"})
            => \A f \in Followers : Len(ledger[<<t, f>>]) = 1

AttemptedFor(t, f) ==
    \/ Len(ledger[<<t, f>>]) > 0
    \/ postCount[<<t, f>>] > 0
    \/ (f = 1 /\ \E o \in aggOrders : t \in o.ids)

\* C5 as stated, on finite runs: a trade the executor will not read again (DONE)
\* has had an execution attempt for every configured follower, buffered BUYs included.
C5_DoneWasAttemptedForAll ==
    \A t \in TradeIds :
        (multi /\ activity[t].bot /\ doneBy[t] # "monitor")
            => \A f \in Followers : AttemptedFor(t, f)

HasShortfall(trade, fetched) ==
    /\ trade.side = "BUY"
    /\ fetched.positions = "array"
    /\ fetched.balance >= 0
    /\ fetched.balance < trade.usdcSize

\* what validateTrade answered for a BUY whose notional exceeds the fetched balance
C6_Rejected ==
    (pc = "validated" /\ HasShortfall(Head(trades), vin))
        => /\ ~cur.isValid
           /\ cur.reason = <<"Insufficient balance", vin.balance, Head(trades).usdcSize>>
           /\ cur.reason[2] < cur.reason[3]

\* what executeTrade does with that answer
C6_NoOrderNoSuccess ==
    (pc = "validated" /\ pc' # "validated" /\ crashes' = crashes
       /\ HasShortfall(Head(trades), vin))
        => LET t == Head(trades).id
               f == Head(fq)
           IN  /\ postCount' = postCount
               /\ aggOrders' = aggOrders
               /\ pc' = "followers"
               /\ ~activity'[t].bot
               /\ multi => /\ \A i \in 1..Len(ledger'[<<t, f>>]) :
                                 ledger'[<<t, f>>][i].status = "failed"
                           /\ faults' = faults =>
                                 ledger'[<<t, f>>] = <<ExecutionRecord(t, f, "failed", FALSE)>>
               /\ ~multi => (faults' = faults => activity'[t].botExcutedTime = -1)

\* C6: a BUY whose notional exceeds the follower's balance is rejected by validateTrade
\* with a reason naming the shortfall, and executeTrade then calls no gateway and
\* writes no success record: a failed record (multi-wallet) or the FAILED status.
C6_InsufficientBalance == []C6_Rejected /\ [][C6_NoOrderNoSuccess]_vars

\* a BUY of 0.40 validated against a balance of 0.10
C6_Witness ==
    /\ pc = "validated"
    /\ Head(trades).side = "BUY" /\ Head(trades).usdcSize = 40
    /\ vin = [positions |-> "array", balance |-> 10]
    /\ cur.reason = <<"Insufficient balance", 10, 40>>

C9_OnlySmallBuysBuffered ==
    \A i \in 1..Len(buffer) : \A j \in 1..Len(buffer[i].trades) :
        /\ buffer[i].trades[j].side = "BUY"
        /\ buffer[i].trades[j].usdcSize < TRADE_AGGREGATION_MIN_TOTAL_USD

CountIn(buf, t) ==
    SumSeq([i \in 1..Len(buf) |->
              Cardinality({ j \in 1..Len(buf[i].trades) : buf[i].trades[j].id = t })])

\* one turn of the loop over the pending trades, with aggregation enabled
C9_Routing ==
    (aggEnabled /\ pc = "trades" /\ trades # <<>> /\ crashes' = crashes
       /\ activity' = activity)
        => LET trade == Head(trades)
           IN  IF trade.side = "BUY" /\ trade.usdcSize < TRADE_AGGREGATION_MIN_TOTAL_USD
               THEN /\ CountIn(buffer', trade.id) = CountIn(buffer, trade.id) + 1
                    /\ pc' = "trades"
                    /\ fq' = <<>>
                    /\ trades' = Tail(trades)
               ELSE /\ buffer' = buffer
                    /\ faults' = faults =>
                         /\ pc' = "followers"
                         /\ trades' = trades
                         /\ fq' = IF multi
                                  THEN SelectSeq([i \in 1..NumFollowers |-> i], LAMBDA f : ledger[<<trade.id, f>>] = <<>>)
                                  ELSE <<NoFollower>>

\* C9: with aggregation enabled a pending trade is buffered if and only if it is a
\* BUY with usdcSize below the minimum; any other is handed to the immediate
\* execution in the same iteration.
C9_BufferedIffSmallBuy == []C9_OnlySmallBuysBuffered /\ [][C9_Routing]_vars

\* a small BUY waits in the buffer while a SELL has been ordered
C9_Witness ==
    /\ aggEnabled
    /\ buffer # <<>>
    /\ \E k \in Pairs : postCount[k] > 0 /\ activity[k[1]].side = "SELL"

\* C7: whatever the calls to addToAggregationBuffer on a key, the group's
\* totalUsdcSize is the sum of its constituents' usdcSize and its averagePrice is
\* the sum of usdcSize times price over the sum of usdcSize.
C7_TotalsAndAverage ==
    \A i \in 1..Len(buffer) :
        LET g == buffer[i]
            sizes == [j \in 1..Len(g.trades) |-> g.trades[j].usdcSize]
            values == [j \in 1..Len(g.trades) |-> g.trades[j].usdcSize * g.trades[j].price]
        IN  /\ g.totalUsdcSize = SumSeq(sizes)
            /\ g.averagePrice.num * SumSeq(sizes) = SumSeq(values) * g.averagePrice.den

\* 20, 30 and 40 at 0.50, 0.52 and 0.55: total 90, average 4760 / 90
C7_Witness ==
    /\ Len(buffer) = 1
    /\ [j \in 1..Len(buffer[1].trades) |-> buffer[1].trades[j].usdcSize] = <<20, 30, 40>>
    /\ [j \in 1..Len(buffer[1].trades) |-> buffer[1].trades[j].price] = <<50, 52, 55>>
    /\ buffer[1].totalUsdcSize = 90
    /\ buffer[1].averagePrice = [num |-> 4760, den |-> 90]

\* a CLOSED breaker has fewer failures than the threshold, and no operation runs
\* behind a breaker that is OPEN within its cool-down
C10_State ==
    \A n \in BreakerNames :
        /\ cb[n].state = "CLOSED" => cb[n].failures < FailureThreshold
        /\ FailsFast(cb[n], cbNow) => ~cb[n].inFlight

\* the failure that completes the threshold opens the breaker; a call to an OPEN
\* breaker within the cool-down is refused
C10_Step ==
    \A n \in BreakerNames :
        /\ (cb[n].state = "CLOSED" /\ cb[n].inFlight /\ ~cb'[n].inFlight)
              => IF cbLast'.result = "error"
                 THEN /\ cb'[n].failures = cb[n].failures + 1
                      /\ cb'[n].state = IF cb[n].failures + 1 >= FailureThreshold
                                        THEN "OPEN" ELSE "CLOSED"
                      /\ cb'[n].lastFailureTime = cbNow
                 ELSE cb'[n].failures = 0 /\ cb'[n].state = "CLOSED"
        /\ (cb[n].state = "OPEN" /\ cbNow - cb[n].lastFailureTime < CoolDownTicks
              /\ cbLast' # cbLast /\ cbLast'.name = n)
              => /\ ~cbLast'.invoked
                 /\ cbLast'.result = "circuit-open"
                 /\ cbLast'.error.code = "CIRCUIT_BREAKER_ERROR"
                 /\ cbLast'.error.isRetryable
                 /\ cb'[n] = cb[n]

\* C10: k consecutive failed calls on a CLOSED breaker of threshold k leave it OPEN,
\* and while it is OPEN with the cool-down running execute fails with a retryable
\* circuit-open error without invoking the operation.
C10_OpensAndFailsFast == []C10_State /\ [][C10_Step]_vars

\* the threshold was reached and the next call was refused
C10_Witness ==
    \E n \in BreakerNames :
        /\ cb[n].state = "OPEN"
        /\ cb[n].failures = FailureThreshold
        /\ cbLast = [name |-> n, invoked |-> FALSE, result |-> "circuit-open",
                     error |-> CircuitBreakerError]

\* what execute does with an OPEN breaker past its cool-down, and what the probe's
\* outcome does to the breaker
C11_Step ==
    \A n \in BreakerNames :
        /\ (cb[n].state = "OPEN" /\ cbNow - cb[n].lastFailureTime >= CoolDownTicks
              /\ cbLast' # cbLast /\ cbLast'.name = n)
              => /\ cbLast'.invoked
                 /\ cbLast'.result = "started"
                 /\ cb'[n].state = "HALF_OPEN"
                 /\ cb'[n].inFlight
        /\ (cb[n].state = "HALF_OPEN" /\ cb[n].inFlight /\ ~cb'[n].inFlight)
              => IF cbLast'.result = "ok"
                 THEN cb'[n].state = "CLOSED" /\ cb'[n].failures = 0
                 ELSE /\ cb'[n].state = "OPEN"
                      /\ cb'[n].lastFailureTime = cbNow
                      /\ cbNow' - cb'[n].lastFailureTime < CoolDownTicks

\* C11: past the cool-down the next execute on an OPEN breaker runs the operation as
\* a probe; its success closes the breaker with the counter at 0, its failure opens
\* it again with the cool-down counted from that failure.
C11_ProbeAfterCoolDown == [][C11_Step]_vars

\* a probe failed: the breaker is OPEN again, its last failure after the cool-down
C11_Witness ==
    \E n \in BreakerNames :
        /\ cb[n].state = "OPEN"
        /\ cb[n].failures = FailureThreshold + 1
        /\ cb[n].lastFailureTime >= CoolDownTicks

\* an executor step inside the loop over the pending trades leaves the trades that
\* are still to be processed in place, or moves on to the next one
C12_Step ==
    (pc \in {"trades", "followers", "validated", "record"} /\ crashes' = crashes)
        => (trades' = trades \/ trades' = Tail(trades))

\* C12 as stated: a fault while one pending trade is processed never keeps the
\* remaining pending trades of the iteration from being processed, with aggregation
\* enabled or not.
C12_FaultKeepsRestOfBatch == [][C12_Step]_vars

\* the bound on the group length holds the model back here, not the program
AtBufferBound ==
    /\ pc = "trades" /\ trades # <<>>
    /\ aggEnabled /\ ShouldBuffer(Head(trades))
    /\ ~GroupHasRoom(buffer, Head(trades))

\* without a stop request the loop has not ended and has a next step
C13_Running ==
    isRunning =>
        /\ pc \in {"top", "trades", "followers", "validated", "record", "ready", "agg",
                    "aggValidated", "sleep"}
        /\ pc = "top" => ENABLED ReadTempTrades
        /\ pc = "trades" => AtBufferBound \/ ENABLED (ProcessTrade \/ TradesDone)
        /\ pc = "followers" => ENABLED (ExecuteTradeValidate \/ MarkActivity)
        /\ pc = "validated" => ENABLED ExecuteTradeOrder
        /\ pc = "record" => ENABLED ExecuteTradeRecord
        /\ pc = "ready" => ENABLED GetReadyAggregatedTrades
        /\ pc = "agg" => ENABLED (ExecuteAggregatedValidate \/ AggregatedDone)
        /\ pc = "aggValidated" => ENABLED ExecuteAggregatedOrder
        /\ pc = "sleep" => ENABLED Sleep

\* the end of an iteration leads to the start of the next one
C13_NextIteration ==
    (pc = "sleep" /\ isRunning /\ pc' # pc /\ crashes' = crashes) => pc' = "top"

HasFailedRecord(k) == ledger[k] # <<>> /\ ledger[k][1].status = "failed"

\* what a step may do to a pair that has a failed record
C14_Step ==
    \A k \in TradeIds \X Followers :
        HasFailedRecord(k)
            => /\ ledger'[k] = ledger[k]
               /\ postCount'[k] = postCount[k]
               /\ ~(pc # "validated" /\ pc' = "validated"
                      /\ Head(trades').id = k[1] /\ Head(fq') = k[2])
               /\ k[2] = 1 => \A o \in aggOrders' \ aggOrders : k[1] \notin o.ids

\* C14: once (T, F) has a failed execution record, no later step validates or orders
\* for (T, F), and the record is neither changed nor deleted.
C14_FailedIsTerminal == [][C14_Step]_vars

\* a trade read again while follower 1 has its failed record and follower 2 has none
C14_Witness ==
    \E t \in TradeIds :
        /\ HasFailedRecord(<<t, 1>>)
        /\ ledger[<<t, 2>>] = <<>>
        /\ pc = "trades" /\ trades # <<>> /\ Head(trades).id = t

\* C15: validateTrade always returns a result; when a wrapped fetch throws, a breaker
\* refuses the call or the positions are not an array, the result is isValid = FALSE
\* with a non-empty reason.
C15_ValidateNeverThrows ==
    trades # <<>> =>
        /\ cur.isValid \in BOOLEAN
        /\ ({vin.my, vin.user} # {"array"} \/ vin.bal < 0)
              => ~cur.isValid /\ cur.reason # <<>> /\ cur.reason[1] = "Validation failed"

\* the balance breaker refuses the call, and the positions are not an array
C15_Witness ==
    /\ trades # <<>>
    /\ vin = [my |-> "array", user |-> "malformed", bal |-> -2]
    /\ cur = [isValid |-> FALSE, reason |-> <<"Validation failed">>, myBalance |-> 0]

MonitorStep == MonitorInsert \/ MonitorFirstRun \/ MonitorRestart

C16_Step ==
    /\ (MonitorInsert \/ MonitorRestart) =>
         \A t \in TradeIds :
            IF activity[t].present THEN activity'[t] = activity[t]
            ELSE activity'[t].present => IsPending(activity'[t])
    /\ MonitorFirstRun =>
         \A t \in TradeIds :
            IF activity[t].present /\ ~activity[t].bot
            THEN activity'[t] = [activity[t] EXCEPT !.bot = TRUE, !.botExcutedTime = 999]
            ELSE activity'[t] = activity[t]

C17_OneDocumentPerHash ==
    \A t \in TradeIds :
        /\ activity[t].copies <= 1
        /\ activity[t].present <=> activity[t].copies = 1

\* the API returned a stored activity again, after a fault and a restart of the monitor
C17_Witness ==
    \E t \in TradeIds :
        /\ activity[t].polls >= 2 /\ activity[t].copies = 1
        /\ faults > 0 /\ crashes > 0

\* C18 as stated: a trade is a constituent of at most one group and appears at most
\* once in its trades list, however many iterations it waits in the buffer.
C18_BufferedAtMostOnce ==
    \A t \in TradeIds : CountIn(buffer, t) <= 1

\* the trades of the group in execution whose PROCESSING write did not go through
UnmarkedInGroup ==
    IF pc = "aggValidated"
    THEN { t \in GroupIds(Head(readyq)) : activity[t].botExcutedTime = 0 }
    ELSE {}

C19_Step ==
    /\ (pc = "followers" /\ fq # <<>> /\ ~multi /\ faults' > faults /\ crashes' = crashes)
          => /\ IsPending(activity'[Head(trades).id])
             /\ postCount' = postCount
    /\ (UnmarkedInGroup # {} /\ pc' # pc /\ crashes' = crashes)
          => /\ aggOrders' = aggOrders
             /\ \A t \in UnmarkedInGroup : IsPending(activity'[t])

\* C19 as stated, for the write that marks a trade PROCESSING: when it fails in
\* executeTrade or in executeAggregatedTrades the item is skipped, no order is placed
\* for it and it stays PENDING for a later iteration.
C19_FailedWriteSkipsItem == [][C19_Step]_vars

\* the order executeAggregatedTrades must place for the group in execution
GroupOrder ==
    [ids |-> GroupIds(Head(readyq)), first |-> Head(readyq).trades[1].id,
     usdcSize |-> Head(readyq).totalUsdcSize, price |-> Head(readyq).averagePrice,
     balance |-> cur.myBalance]

\* the validation result is the one of the group's first constituent
C20_ValidatedByFirst ==
    pc = "aggValidated" =>
        LET first == Head(readyq).trades[1]
        IN  /\ cur.isValid => (vin.positions = "array" /\ vin.balance >= 0)
            /\ (cur.isValid /\ first.side = "BUY") => vin.balance >= first.usdcSize
            /\ (vin.positions = "array" /\ vin.balance >= first.usdcSize) => cur.isValid
            /\ cur.reason # <<>> /\ cur.reason[1] = "Insufficient balance"
                  => cur.reason[3] = first.usdcSize

C20_Step ==
    /\ (pc = "agg" /\ pc' = "aggValidated") => readyq' = readyq
    /\ (pc = "aggValidated" /\ pc' # pc /\ crashes' = crashes) =>
          /\ pc' = "agg"
          /\ readyq' = Tail(readyq)
          /\ ~cur.isValid =>
                /\ aggOrders' = aggOrders
                /\ postCount' = postCount
                /\ faults' = faults =>
                      \A t \in GroupIds(Head(readyq)) : activity'[t].botExcutedTime = -1
          /\ cur.isValid => aggOrders' = aggOrders \cup {GroupOrder}

\* C20: a ready group is validated once, by its first constituent, and leaves the
\* queue after one decision: on rejection no order is placed and every constituent
\* whose write goes through is marked FAILED (botExcutedTime = -1); on approval one
\* order is placed, of notional totalUsdcSize and price averagePrice.
C20_GroupAllOrNothing == [][C20_Step]_vars /\ []C20_ValidatedByFirst

\* an approved group of two different trades was ordered at its total
C20_Witness ==
    \E o \in aggOrders :
        /\ Cardinality(o.ids) = 2
        /\ \E t \in o.ids : o.usdcSize > activity[t].usdcSize
        /\ o.usdcSize >= TRADE_AGGREGATION_MIN_TOTAL_USD

\* The status a document carries: bot = true is DONE; otherwise botExcutedTime
\* 0 is PENDING, -1 is FAILED, anything else PROCESSING.
Status(doc) ==
    IF ~doc.present THEN "NONE"
    ELSE IF doc.bot THEN "DONE"
    ELSE IF doc.botExcutedTime = 0 THEN "PENDING"
    ELSE IF doc.botExcutedTime = -1 THEN "FAILED"
    ELSE "PROCESSING"

C21_Step ==
    (pc = "aggValidated" /\ pc' # pc /\ crashes' = crashes /\ faults' = 0) =>
        LET ids == GroupIds(Head(readyq))
        IN  \/ \A t \in ids : Status(activity'[t]) = "DONE"
            \/ \A t \in ids : Status(activity'[t]) = "FAILED"

\* C21 as stated, for a group executed without any store fault: when
\* executeAggregatedTrades is through with the group, its constituents are all DONE
\* or all FAILED.
C21_GroupOutcomeOnAll == [][C21_Step]_vars

\* C22 as stated: no BUY order reaches the gateway with a notional above the balance
\* validateTrade read for it, the aggregated orders of group total included.
C22_OrderWithinBalance ==
    \A o \in aggOrders : o.usdcSize <= o.balance

\* executeTrade's order for a BUY stays within the balance read for it
C22_SingleStep ==
    (pc = "validated" /\ postCount' # postCount /\ Head(trades).side = "BUY") =>
        /\ vin.positions = "array"
        /\ cur.myBalance = vin.balance
        /\ Head(trades).usdcSize <= vin.balance

\* the balance read for a group covers its first constituent
C22_FirstWithinBalance ==
    \A o \in aggOrders : activity[o.first].usdcSize <= o.balance

\* C22: every BUY order of executeTrade has a notional no greater than the balance
\* validateTrade read for it; for an aggregated order the balance read covers the
\* first constituent's notional, not necessarily the group total the order is sized at.
C22_ValidatedNotionalWithinBalance == [][C22_SingleStep]_vars /\ []C22_FirstWithinBalance

\* an aggregated order above the balance read for it, and a single BUY ordered
C22_Witness ==
    /\ \E o \in aggOrders :
          o.usdcSize > o.balance /\ activity[o.first].usdcSize <= o.balance
    /\ \E t \in TradeIds :
          activity[t].side = "BUY" /\ postCount[<<t, NoFollower>>] = 1

\* the pair executeTrade is working on
CurrentPair == <<Head(trades).id, Head(fq)>>

\* C23 as stated: once the gateway call for a pair returned, the record written for
\* the pair has status success.
C23_OrderedIsRecordedSuccess ==
    [][(pc = "record" /\ pc' # pc /\ crashes' = crashes)
          => \A i \in 1..Len(ledger'[CurrentPair]) :
                 ledger'[CurrentPair][i].status = "success"]_vars

C23_Step ==
    /\ (pc = "record" /\ pc' # pc /\ crashes' = crashes /\ faults' = faults)
          => ledger'[CurrentPair] =
                 <<ExecutionRecord(CurrentPair[1], CurrentPair[2], "success", FALSE)>>
    /\ \A k \in TradeIds \X Followers :
          (HasFailedRecord(k)' /\ ~HasFailedRecord(k)) =>
              /\ k = CurrentPair
              /\ \/ pc = "validated" /\ ~cur.isValid
                 \/ pc = "validated" /\ cur.isValid /\ ~preview /\ pc' = "followers"
                       /\ postCount'[k] = postCount[k] + 1
                 \/ pc \in {"validated", "record"} /\ faults' > faults

\* C23: when the gateway call for (T, F) returned and no store operation fails
\* afterwards, the record written for (T, F) has status success; a failed record is
\* written only for a pair whose validation was rejected, whose gateway call raised
\* an error, or whose attempt met a fault of the store (the read or the ledger write
\* that follows the order, the simulated record of preview mode).
C23_FailedRecordHasCause == [][C23_Step]_vars

\* one pair ordered and recorded as success, another ordered and recorded as failed
C23_Witness ==
    /\ \E k \in TradeIds \X Followers :
          /\ postCount[k] = 1
          /\ ledger[k] = <<ExecutionRecord(k[1], k[2], "success", FALSE)>>
    /\ \E k \in TradeIds \X Followers :
          HasFailedRecord(k) /\ postCount[k] = 1

HasRecord(t, f) == Len(ledger[<<t, f>>]) > 0

\* a trade with records for some of its followers only is still pending
C24_PartialIsPending ==
    multi => \A t \in TradeIds :
                ((\E f \in Followers : HasRecord(t, f)) /\ (\E f \in Followers : ~HasRecord(t, f)))
                    => (~activity[t].bot /\ activity[t].botExcutedTime = 0)

C24_Step ==
    /\ (pc = "top" /\ pc' = "trades" /\ faults' = faults)
          => \A t \in TradeIds :
                (activity[t].present /\ ~activity[t].bot /\ activity[t].botExcutedTime = 0)
                    => \E i \in 1..Len(trades') : trades'[i].id = t
    /\ (multi /\ pc = "trades" /\ pc' = "followers")
          => LET t == Head(trades).id
             IN  /\ \A f \in Followers : (\E i \in 1..Len(fq') : fq'[i] = f) <=> ~HasRecord(t, f)
                 /\ \A i, j \in 1..Len(fq') : i < j => fq'[i] < fq'[j]
    /\ (multi /\ pc = "followers" /\ pc' = "validated")
          => /\ ~HasRecord(Head(trades).id, Head(fq))
             /\ fq' = fq

\* C24: a trade that an iteration or a restart left with records for only some of
\* its followers is still PENDING; the next read that succeeds returns it, the ledger
\* lookup then yields exactly the followers without a record, and executeTrade is
\* started for none that has one.
C24_ResumesWithMissingFollowers == []C24_PartialIsPending /\ [][C24_Step]_vars

\* after a restart, follower 2 of a trade is attempted while follower 1 has its record
C24_Witness ==
    /\ multi /\ crashes = 1 /\ pc = "validated"
    /\ fq = <<2>>
    /\ HasRecord(Head(trades).id, 1)
    /\ postCount[<<Head(trades).id, 2>>] = 1

\* a fetch of the validation in progress threw (a network fault or an open breaker)
ValidationFetchFailed == vin.positions = "throw" \/ vin.balance = -1

\* C25 as stated: a pair whose validation could not complete because a fetch failed
\* gets no failed record and no FAILED status, so that a later iteration attempts
\* it again.
C25_FetchFaultStaysRetryable ==
    [][(pc = "validated" /\ ValidationFetchFailed /\ pc' # pc /\ crashes' = crashes)
          => /\ multi => ~HasFailedRecord(CurrentPair)'
             /\ ~multi => activity'[Head(trades).id].botExcutedTime # -1]_vars

\* the moves the status enumeration allows, a step that leaves the status included
Forward(a, b) ==
    \/ a = b
    \/ a = "NONE" /\ b = "PENDING"
    \/ a = "PENDING" /\ b \in {"PROCESSING", "DONE", "FAILED"}
    \/ a = "PROCESSING" /\ b \in {"DONE", "FAILED"}

C26_Step ==
    \A t \in TradeIds : Forward(Status(activity[t]), Status(activity'[t]))

\* C26 as stated: the status of a trade only moves forward along PENDING ->
\* PROCESSING -> DONE | FAILED under every operation of the executor and of the
\* monitor, and no trade is deleted.
C26_StatusOnlyForward == [][C26_Step]_vars

\* neither PROCESSING, FAILED nor DONE
Untouched(t) == activity[t].present /\ ~activity[t].bot /\ activity[t].botExcutedTime = 0

\* what a pass holds to execute was read as PENDING and is PENDING until the pass
\* itself marks it
C27_HeldIsUntouched ==
    /\ pc = "trades" => \A t \in ReadIds : Untouched(t)
    /\ (pc = "followers" /\ fq # <<>>) => Untouched(Head(trades).id)
    /\ (pc = "agg" /\ readyq # <<>>) => \A t \in GroupIds(Head(readyq)) : Untouched(t)

C27_Step ==
    (pc = "top" /\ pc' = "trades")
        => /\ activity' = activity
           /\ \A i \in 1..Len(trades') : Untouched(trades'[i].id)

HeldIds == ReadIds \cup BufferedIds \cup ReadyIds

C28_Step ==
    /\ \A t \in TradeIds :
          (Untouched(t) /\ t \notin HeldIds) => activity'[t] = activity[t]
    /\ (pc = "top" /\ pc' = "trades") => activity' = activity
    /\ (pc = "top" /\ pc' = "trades" /\ faults' = faults)
          => \A t \in TradeIds : Untouched(t) => t \in ReadIds'

\* without store faults and restarts no pair is ordered twice and no trade is part
\* of two aggregated orders
C28_NotCopiedTwice ==
    (faults = 0 /\ crashes = 0) =>
        /\ \A k \in Pairs : postCount[k] <= 1
        /\ \A o1, o2 \in aggOrders : o1 # o2 => o1.ids \cap o2.ids = {}

C29_InOrder ==
    /\ \A i, j \in 1..Len(fq) : i < j => fq[i] < fq[j]
    /\ pc \in {"validated", "record"} => fq # <<>>
    /\ (multi /\ pc = "validated" /\ faults = 0 /\ crashes = 0)
          => \A g \in Followers : g < Head(fq) => HasRecord(Head(trades).id, g)

C29_Step ==
    /\ \A k \in Pairs :
          postCount'[k] # postCount[k] =>
              /\ pc = "validated" /\ k = CurrentPair
              /\ postCount'[k] = postCount[k] + 1
              /\ \A k2 \in Pairs \ {k} : postCount'[k2] = postCount[k2]
              /\ aggOrders' = aggOrders
    /\ aggOrders' # aggOrders =>
          /\ pc = "aggValidated"
          /\ \E o \in aggOrders' : aggOrders' = aggOrders \cup {o}
    /\ (pc = "followers" /\ pc' = "validated") => fq' = fq
    /\ (pc = "validated" /\ pc' = "record") => fq' = fq
    /\ (pc \in {"validated", "record"} /\ pc' = "followers") => fq' = Tail(fq)
    /\ (pc \in {"validated", "record"} /\ crashes' = crashes)
          => pc' \in {pc, "record", "followers"}

\* C29: the executor makes one gateway call per step of one attempt at a time, the
\* followers of a trade are attempted in configured index order, and the attempt of
\* one follower (validation, order, ledger write) is over before the next one starts.
C29_SequentialFollowers == []C29_InOrder /\ [][C29_Step]_vars

\* follower 2 is being validated after follower 1 was ordered and recorded
C29_Witness ==
    /\ multi /\ pc = "validated" /\ faults = 0 /\ crashes = 0
    /\ fq = <<2>>
    /\ postCount[<<Head(trades).id, 1>>] = 1
    /\ HasRecord(Head(trades).id, 1)

\* with followers left to attempt, executeTrade can start for the next of them
C30_NextCanStart ==
    (pc = "followers" /\ fq # <<>>) => ENABLED ExecuteTradeValidate

C30_Step ==
    /\ (pc \in {"validated", "record"} /\ pc' = "followers" /\ crashes' = crashes)
          => /\ fq' = Tail(fq)
             /\ trades' = trades
    /\ (pc = "followers" /\ pc' = "validated")
          => \E in \in ValidationInputs : vin' = in /\ cur' = validateTrade(Head(trades), in)
    /\ (pc = "validated" /\ cur.isValid /\ ~preview /\ pc' # pc /\ crashes' = crashes)
          => postCount'[CurrentPair] = postCount[CurrentPair] + 1

\* C30: however the attempt of one follower ends (rejection, gateway error, store
\* fault), the loop goes on with the remaining followers of the trade in the same
\* iteration: each is validated and, if approved, ordered.
C30_FollowersFailIndependently == []C30_NextCanStart /\ [][C30_Step]_vars

\* follower 2 was approved and ordered in the iteration in which follower 1 failed
C30_Witness ==
    /\ multi /\ crashes = 0 /\ pc = "record"
    /\ fq = <<2>>
    /\ HasFailedRecord(<<Head(trades).id, 1>>)
    /\ postCount[<<Head(trades).id, 2>>] = 1

\* C31 as stated: every record written while PREVIEW_MODE is on has preview = true,
\* and every record written while it is off has preview = false.
C31_PreviewFlagFollowsMode ==
    \A k \in TradeIds \X Followers :
        \A i \in 1..Len(ledger[k]) : ledger[k][i].preview = preview

\* C32 as stated: a failure of one of validateTrade's three fetches increments no
\* failure counter that gates another of the three.
C32_FetchesDoNotShareCounters ==
    [][\A f \in Fetches :
          (vin' = [fetch |-> f, ok |-> FALSE] /\ cbLast'.result = "error" /\ cb' # cb)
              => \A g \in Fetches \ {f} :
                    cb'[BreakerOf(g)].failures = cb[BreakerOf(g)].failures]_vars

\* the loop takes up the next trade, the aggregated phase or the next ready group
StartsNewWork ==
    \/ pc = "trades" /\ trades # <<>> /\ (pc' = "followers" \/ buffer' # buffer)
    \/ pc = "trades" /\ pc' = "ready"
    \/ pc = "ready" /\ pc' = "agg"
    \/ pc = "agg" /\ pc' = "aggValidated"

\* C33 as stated: once stopTradeExecutor was called, the loop starts no further phase
\* and no further trade execution; only the work on the trade in hand is finished.
C33_StopStartsNothingNew ==
    [][(~isRunning /\ crashes' = crashes) => ~StartsNewWork]_vars

SameKeyFields(a, b) ==
    /\ a.userAddress = b.userAddress
    /\ a.conditionId = b.conditionId
    /\ a.asset = b.asset
    /\ a.side = b.side

CountTrades(buf) == SumSeq([i \in 1..Len(buf) |-> Len(buf[i].trades)])

\* a pass of getReadyAggregatedTrades: the clock stands and no trade is added
C36_IsReadyPass == now' = now /\ CountTrades(buffer') <= CountTrades(buffer)

C36_Step ==
    /\ C36_IsReadyPass =>
          /\ \A i \in 1..Len(buffer) :
                ~WindowElapsed(buffer[i], now) =>
                    \E j \in 1..Len(buffer') : buffer'[j] = buffer[i]
          /\ \A j \in 1..Len(buffer') :
                /\ ~WindowElapsed(buffer'[j], now)
                /\ \E i \in 1..Len(buffer) : buffer[i] = buffer'[j]
          /\ \A i \in 1..Len(buffer) :
                WindowElapsed(buffer[i], now) =>
                    /\ \A j \in 1..Len(buffer') : buffer'[j].key # buffer[i].key
                    /\ \/ \E j \in 1..Len(readyq') : readyq'[j] = buffer[i]
                       \/ ~MeetsMinimum(buffer[i])
    /\ ~C36_IsReadyPass =>
          \A i \in 1..Len(buffer) :
              \E j \in 1..Len(buffer') :
                  /\ buffer'[j].key = buffer[i].key
                  /\ buffer'[j].firstTradeTime = buffer[i].firstTradeTime

\* C36: a pass of getReadyAggregatedTrades leaves the groups younger than the window
\* as they are and removes every group whose first trade is at least a window old,
\* ready or not; any other step keeps every group and its firstTradeTime.
C36_WindowFromFirstTrade == [][C36_Step]_vars

\* a group merged after its first tick was returned as ready while a younger group
\* stayed in the buffer
C36_Witness ==
    /\ Len(readyq) = 1
    /\ readyq[1].firstTradeTime = 0
    /\ readyq[1].lastTradeTime = 1
    /\ Len(buffer) = 1
    /\ buffer[1].firstTradeTime = 1

C37_NextCanStart ==
    (pc = "agg" /\ readyq # <<>>) => ENABLED ExecuteAggregatedValidate

C37_Step ==
    /\ (pc = "aggValidated" /\ pc' # pc)
          => /\ pc' = "agg"
             /\ readyq' = Tail(readyq)
             /\ cur.isValid => \E o \in aggOrders' : o.ids = GroupIds(Head(readyq))
             /\ (/\ cur.isValid
                 /\ faults' = faults
                 /\ Status(activity'[Head(readyq).trades[1].id]) # "DONE")
                   => \A t \in GroupIds(Head(readyq)) : Status(activity'[t]) = "FAILED"
    /\ (pc = "agg" /\ pc' = "aggValidated")
          => \E in \in ValidationInputs :
                 vin' = in /\ cur' = validateTrade(Head(readyq).trades[1], in)

C38_InExecuteTrade ==
    /\ pc \in {"followers", "validated", "record"}
    /\ fq # <<>>
    /\ crashes' = crashes

C38_Step ==
    C38_InExecuteTrade =>
        /\ isMultiWallet(Head(fq)) =>
              /\ activity'[Head(trades).id] = activity[Head(trades).id]
              /\ \A k \in TradeIds \X Followers :
                    k # CurrentPair => ledger'[k] = ledger[k]
              /\ (pc \in {"validated", "record"} /\ pc' = "followers" /\ faults' = faults)
                    => Len(ledger'[CurrentPair]) = Len(ledger[CurrentPair]) + 1
        /\ ~isMultiWallet(Head(fq)) =>
              /\ ledger' = ledger
              /\ (pc = "followers" /\ pc' = "validated")
                    => /\ activity'[Head(trades).id].botExcutedTime = 1
                       /\ Status(activity'[Head(trades).id]) \in {"PROCESSING", "DONE"}

\* C38: executeTrade with a follower wallet leaves the trade's status fields as they
\* are and writes only the ExecutionRecord of that trade and follower; without a
\* follower wallet it writes no ExecutionRecord and has set botExcutedTime to 1 when
\* it validates.
C38_StatusOrRecord == [][C38_Step]_vars

\* with a follower wallet an order was placed and recorded, the trade still PENDING
C38_Witness ==
    /\ multi
    /\ postCount[<<1, 1>>] = 1
    /\ ledger[<<1, 1>>] # <<>>
    /\ Status(activity[1]) = "PENDING"

\* C39: executeTrade is only ever entered for a follower that has a client, and
\* orders are placed only for the first numClients followers.
C39_OnlyFollowersWithClient ==
    /\ (multi /\ pc \in {"validated", "record"} /\ fq # <<>>) => Head(fq) <= numClients
    /\ \A t \in TradeIds, f \in Followers :
          (multi /\ postCount[<<t, f>>] > 0) => f <= numClients

====
